---------------------------- MODULE Spec2Model ----------------------------
(***************************************************************************)
(* A model of geociencio/kml2csv: kml_parser.py (the streaming HTML        *)
(* scanners, the placemark field extractor, the form grouping) and         *)
(* kml_to_csv.py (the tree-based description parser and the interactive    *)
(* export run).                                                            *)
(*                                                                         *)
(* Strings.  A Python str is a sequence of atoms; an atom is a literal     *)
(* piece of text that is either the blank " ", the comma "," or a piece    *)
(* holding neither blank nor comma ("K", "Name", "1.0", "&").  The string  *)
(* is the concatenation of its atoms: <<" ", "K", " ">> is " K ".          *)
(*                                                                         *)
(* Markup.  A description is a sequence of tokens, each a record           *)
(*    [t |-> "start", tag |-> "td", s |-> <<>>]      the text "<td>"       *)
(*    [t |-> "end",   tag |-> "td", s |-> <<>>]      the text "</td>"      *)
(*    [t |-> "data",  tag |-> "",   s |-> str]       the text str          *)
(*    [t |-> "open",  tag |-> "td", s |-> <<>>]      the text "<td"        *)
(*    [t |-> "marked", tag |-> "",  s |-> <<>>]      the text "<![x y"     *)
(* and the description is the concatenation of the texts of its tokens.    *)
(* No two data tokens are adjacent, and an "open" token (a tag that is     *)
(* never closed by ">") is the last token of its description.  A          *)
(* "marked" token is the start of a marked section whose keyword ("x") is  *)
(* none of those the scanner knows.                                        *)
(*                                                                         *)
(* Optional values.  None is <<>> and a present value v is <<v>>.          *)
(* A call that may raise gives [value |-> v] when it returns v and         *)
(* [raises |-> e] when the exception e leaves it.                          *)
(* An insertion-ordered dict is a sequence of <<key, value>> pairs with    *)
(* distinct keys.                                                          *)
(***************************************************************************)
EXTENDS Integers, Sequences, FiniteSets, TLC

VARIABLES
    \* HTMLParser.feed over one description (kml_parser.py)
    parser,        \* "table" (TableHTMLParser), "h1" (H1HTMLParser) or "none"
    doc,           \* the description as it was built (rows of cells, elements)
    html,          \* the description: the tokens fed to the parser
    pos,           \* the next token of html that goahead looks at
    tp,            \* TableHTMLParser: in_td, current_row, data
    hp,            \* H1HTMLParser: in_h1, text
    exc,           \* the exception that left the function under way (None: none)
    \* kml_parser.extract_placemark_data over one placemark
    placemark,     \* the Placemark element: its name, coordinates, description
    epc,           \* where extract_placemark_data stands
    pdata,         \* the PlacemarkData being filled
    \* the placemarks of the parsed document, in document order
    placemarks,
    \* kml_parser.group_placemarks_by_form
    gi,            \* the placemark the loop is at
    forms,         \* form name -> the placemarks (their positions) of the form
    \* kml_to_csv.kml_to_csv_interactive_multiple
    kmz,           \* the archive: [kind, placemarks]
    pc,            \* where the run stands
    input,         \* what the user typed at the prompt (None before)
    placemark_names,
    selected_name,
    selected_placemarks,
    fieldnames,
    all_placemarks_data,
    written,       \* the lines handed to the open file: in its buffer or on disk
    csvfile,       \* the destination on disk.  None: never opened; Some(lines):
                   \* the whole lines it holds.  The file object buffers: the
                   \* lines reach the disk when the with block is left
    torn,          \* after the whole lines comes a cut line: a proper, non-empty
                   \* prefix of the text of one more line ("\r\n" included)
    outcome        \* how the run went

parserVars == <<parser, doc, html, pos, tp, hp, exc>>

extractVars == <<placemark, epc, pdata>>

groupVars == <<gi, forms>>

runVars ==
    <<kmz, pc, input, placemark_names, selected_name, selected_placemarks,
      fieldnames, all_placemarks_data, written, csvfile, torn, outcome>>

vars == <<parserVars, extractVars, placemarks, groupVars, runVars>>

---------------------------------------------------------------------------
(* Bounds of the model *)

MaxRows == 2
MaxCells == 3
MaxElems == 3
MaxCoordLen == 7
MaxGroupPlacemarks == 4
MaxRunPlacemarks == 2
MaxSelectPlacemarks == 3
MaxInputLen == 2

---------------------------------------------------------------------------
(* str *)

WS == " "

None == <<>>

Some(v) == <<v>>

\* the call returns v
Returns(v) == [value |-> v]

\* the exception e leaves the call
Raises(e) == [raises |-> e]

Raised(r) == "raises" \in DOMAIN r

\* bool(o) of an Optional[str]: None and "" are falsy
Truthy(o) == o # <<>> /\ o[1] # <<>>

RECURSIVE lstrip(_)
lstrip(s) == IF s # <<>> /\ Head(s) = WS THEN lstrip(Tail(s)) ELSE s

RECURSIVE rstrip(_)
rstrip(s) ==
    IF s # <<>> /\ s[Len(s)] = WS THEN rstrip(SubSeq(s, 1, Len(s) - 1)) ELSE s

\* str.strip()
strip(s) == rstrip(lstrip(s))

RECURSIVE Concat(_)
Concat(ss) == IF ss = <<>> THEN <<>> ELSE Head(ss) \o Concat(Tail(ss))

---------------------------------------------------------------------------
(* dict *)

Keys(d) == [i \in 1..Len(d) |-> d[i][1]]

HasKey(d, k) == \E i \in 1..Len(d) : d[i][1] = k

\* d.get(k, default)
Get(d, k, default) ==
    IF HasKey(d, k) THEN d[CHOOSE i \in 1..Len(d) : d[i][1] = k][2] ELSE default

\* d[k] = v: an existing key keeps its place, a new key goes last
Put(d, k, v) ==
    IF HasKey(d, k)
    THEN [i \in 1..Len(d) |-> IF d[i][1] = k THEN <<k, v>> ELSE d[i]]
    ELSE Append(d, <<k, v>>)

---------------------------------------------------------------------------
(* Tokens *)

StartTag(tag) == [t |-> "start", tag |-> tag, s |-> <<>>]

EndTag(tag) == [t |-> "end", tag |-> tag, s |-> <<>>]

Data(s) == [t |-> "data", tag |-> "", s |-> s]

OpenTag(tag) == [t |-> "open", tag |-> tag, s |-> <<>>]

Marked == [t |-> "marked", tag |-> "", s |-> <<>>]

\* str.lower() of a tag name
lower(tag) ==
    CASE tag = "TD" -> "td"
      [] tag = "TR" -> "tr"
      [] tag = "H1" -> "h1"
      [] OTHER -> tag

---------------------------------------------------------------------------
(* TableHTMLParser *)

TableHTMLParser_init == [in_td |-> FALSE, current_row |-> <<>>, data |-> <<>>]

Table_handle_starttag(p, tag) ==
    IF lower(tag) = "td" THEN [p EXCEPT !.in_td = TRUE] ELSE p

Table_handle_endtag(p, tag) ==
    IF lower(tag) = "td"
    THEN [p EXCEPT !.in_td = FALSE]
    ELSE IF lower(tag) = "tr"
         THEN LET key == strip(p.current_row[1])
                  value == strip(p.current_row[2])
                  kept == Len(p.current_row) = 2 /\ key # <<>>
              IN  [p EXCEPT !.data = IF kept THEN Put(@, key, value) ELSE @,
                            !.current_row = <<>>]
         ELSE p

Table_handle_data(p, data) ==
    IF p.in_td THEN [p EXCEPT !.current_row = Append(@, data)] ELSE p

---------------------------------------------------------------------------
(* H1HTMLParser *)

H1HTMLParser_init == [in_h1 |-> FALSE, text |-> None]

H1_handle_starttag(p, tag) ==
    IF lower(tag) = "h1" THEN [p EXCEPT !.in_h1 = TRUE] ELSE p

H1_handle_endtag(p, tag) ==
    IF lower(tag) = "h1" THEN [p EXCEPT !.in_h1 = FALSE] ELSE p

H1_handle_data(p, data) ==
    IF p.in_h1 /\ ~Truthy(p.text) THEN [p EXCEPT !.text = Some(strip(data))] ELSE p

---------------------------------------------------------------------------
(* HTMLParser.feed, called once and never followed by close(): goahead     *)
(* hands the tokens to the handlers in order and stops at a tag that is    *)
(* not closed by ">", and at a last text that holds an "&" with no blank   *)
(* after it (it could be the start of a character reference).              *)

Withheld(s) ==
    \E i \in 1..Len(s) : s[i] = "&" /\ \A j \in (i + 1)..Len(s) : s[j] # WS

goahead_stops(h, i) ==
    \/ i > Len(h)
    \/ h[i].t = "open"
    \/ h[i].t = "data" /\ i = Len(h) /\ Withheld(h[i].s)

\* goahead reaches "<![" followed by a keyword it does not know:
\* parse_html_declaration hands it to parse_marked_section, which raises
\* AssertionError; nothing catches it, so it leaves feed and the caller
goahead_raises(h, i) == i <= Len(h) /\ h[i].t = "marked"

\* the scan of the whole description meets such a marked section
RECURSIVE feed_raises(_, _)
feed_raises(h, i) ==
    IF goahead_stops(h, i) THEN FALSE
    ELSE IF goahead_raises(h, i) THEN TRUE ELSE feed_raises(h, i + 1)

\* one step of goahead on a TableHTMLParser
Table_dispatch(p, tok) ==
    CASE tok.t = "start" -> Table_handle_starttag(p, tok.tag)
      [] tok.t = "end" -> Table_handle_endtag(p, tok.tag)
      [] tok.t = "data" -> Table_handle_data(p, tok.s)

RECURSIVE Table_feed(_, _, _)
Table_feed(p, h, i) ==
    IF goahead_stops(h, i) \/ goahead_raises(h, i) THEN p
    ELSE Table_feed(Table_dispatch(p, h[i]), h, i + 1)

\* one step of goahead on an H1HTMLParser
H1_dispatch(p, tok) ==
    CASE tok.t = "start" -> H1_handle_starttag(p, tok.tag)
      [] tok.t = "end" -> H1_handle_endtag(p, tok.tag)
      [] tok.t = "data" -> H1_handle_data(p, tok.s)

RECURSIVE H1_feed(_, _, _)
H1_feed(p, h, i) ==
    IF goahead_stops(h, i) \/ goahead_raises(h, i) THEN p
    ELSE H1_feed(H1_dispatch(p, h[i]), h, i + 1)

\* kml_parser.parse_html_description: nothing catches what feed raises
parse_html_description(h) ==
    IF feed_raises(h, 1) THEN Raises("AssertionError")
    ELSE Returns(Table_feed(TableHTMLParser_init, h, 1).data)

\* kml_parser.get_form_name: nothing catches what feed raises
get_form_name(h) ==
    IF feed_raises(h, 1) THEN Raises("AssertionError")
    ELSE Returns(H1_feed(H1HTMLParser_init, h, 1).text)

---------------------------------------------------------------------------
(* A Placemark element.  A child (name, coordinates, description) is       *)
(* Absent, or an element holding its text: Child(None) is an element       *)
(* without text, Child(Some(s)) an element with the text s.  The text of   *)
(* a description is its token sequence.                                    *)

Absent == <<>>

Child(text) == <<text>>

\* element is not None and element.text
HasText(child) == child # Absent /\ Truthy(child[1])

Placemark(name, coordinates, description) ==
    [name |-> name, coordinates |-> coordinates, description |-> description]

NoPlacemark == Placemark(Absent, Absent, Absent)

PlacemarkData_init ==
    [name |-> <<>>, longitude |-> <<>>, latitude |-> <<>>, altitude |-> <<>>,
     extra |-> <<>>]

\* str.split(","): the pieces between the commas, at least one
RECURSIVE split(_, _)
split(s, piece) ==
    IF s = <<>> THEN <<piece>>
    ELSE IF Head(s) = "," THEN <<piece>> \o split(Tail(s), <<>>)
         ELSE split(Tail(s), Append(piece, Head(s)))

\* str.strip() of a description: the blanks before its first tag and after
\* its last tag go
strip_html(h) ==
    LET l == IF h # <<>> /\ h[1].t = "data"
             THEN (IF lstrip(h[1].s) = <<>> THEN Tail(h)
                   ELSE <<Data(lstrip(h[1].s))>> \o Tail(h))
             ELSE h
        n == Len(l)
    IN  IF l # <<>> /\ l[n].t = "data"
        THEN (IF rstrip(l[n].s) = <<>> THEN SubSeq(l, 1, n - 1)
              ELSE SubSeq(l, 1, n - 1) \o <<Data(rstrip(l[n].s))>>)
        ELSE l

---------------------------------------------------------------------------
(* kml_parser.extract_placemark_data *)

extract_name(pm, d) ==
    IF HasText(pm.name) THEN [d EXCEPT !.name = strip(pm.name[1][1])] ELSE d

extract_coordinates(pm, d) ==
    IF HasText(pm.coordinates)
    THEN LET coords == split(strip(pm.coordinates[1][1]), <<>>)
         IN  IF Len(coords) = 3
             THEN [d EXCEPT !.longitude = coords[1], !.latitude = coords[2],
                            !.altitude = coords[3]]
             ELSE IF Len(coords) = 2
                  THEN [d EXCEPT !.longitude = coords[1], !.latitude = coords[2]]
                  ELSE IF Len(coords) = 1
                       THEN [d EXCEPT !.longitude = coords[1]]
                       ELSE d
    ELSE d

\* lines 261-265: the description and the return; what
\* parse_html_description raises leaves extract_placemark_data
extract_description(pm, d) ==
    IF HasText(pm.description)
    THEN LET extra == parse_html_description(strip_html(pm.description[1][1]))
         IN  IF Raised(extra) THEN extra
             ELSE Returns([d EXCEPT !.extra = extra.value])
    ELSE Returns(d)

extract_placemark_data(pm) ==
    extract_description(pm,
        extract_coordinates(pm, extract_name(pm, PlacemarkData_init)))

---------------------------------------------------------------------------
(* kml_parser.group_placemarks_by_form: the loop over the placemarks.      *)
(* forms maps a form name to the positions, in the document, of the        *)
(* placemarks appended to it.                                              *)

NO_FORM == <<"__NO_FORM__">>

\* the description text the form name is read from
desc_html(pm) ==
    IF HasText(pm.description) THEN strip_html(pm.description[1][1]) ELSE <<>>

\* get_form_name(desc_html) or NO_FORM; what get_form_name raises leaves
\* the line
form_name(pm) ==
    LET name == get_form_name(desc_html(pm))
    IN  IF Raised(name) THEN name
        ELSE Returns(IF Truthy(name.value) THEN name.value[1] ELSE NO_FORM)

\* a plausible slip: the sentinel is left out, a placemark without a form
\* name joins no group
group_placemark_no_sentinel(fs, pms, i) ==
    LET found == get_form_name(desc_html(pms[i]))
    IN  IF Raised(found) THEN found
        ELSE Returns(IF Truthy(found.value)
                     THEN Put(fs, found.value[1],
                              Append(Get(fs, found.value[1], <<>>), i))
                     ELSE fs)

\* one turn of the loop, for the placemark at position i: the forms after
\* it, or the exception that leaves group_placemarks_by_form
group_placemark(fs, pms, i) ==
    LET name == form_name(pms[i])
    IN  IF Raised(name) THEN name
        ELSE Returns(IF name.value # <<>>
                     THEN Put(fs, name.value, Append(Get(fs, name.value, <<>>), i))
                     ELSE fs)

---------------------------------------------------------------------------
(* kml_to_csv.parse_html_description: ET.fromstring over the description   *)
(* wrapped in <div>..</div>.  The parse fails (ParseError) on a tag that   *)
(* is not closed by ">", on a marked section that is not closed, on an     *)
(* end tag that does not match the open element, on an element left open   *)
(* and on a stray "&".  In the descriptions of this model no table, tr or  *)
(* td lies inside an element of its own name.                              *)

RECURSIVE balanced(_, _, _)
balanced(h, i, stack) ==
    IF i > Len(h) THEN stack = <<>>
    ELSE CASE h[i].t = "open" -> FALSE
           [] h[i].t = "marked" -> FALSE
           [] h[i].t = "data" ->
                (\A k \in 1..Len(h[i].s) : h[i].s[k] # "&")
                    /\ balanced(h, i + 1, stack)
           [] h[i].t = "start" -> balanced(h, i + 1, <<h[i].tag>> \o stack)
           [] h[i].t = "end" ->
                stack # <<>> /\ Head(stack) = h[i].tag
                    /\ balanced(h, i + 1, Tail(stack))

\* whether ET.fromstring(f'<div>{html_string}</div>') succeeds
fromstring_ok(h) == balanced(h, 1, <<>>)

\* element.text: the text right after the start tag, None without one
element_text(h, i) ==
    IF i < Len(h) /\ h[i + 1].t = "data" THEN Some(h[i + 1].s) ELSE None

\* the position of the end tag of the element that starts at i
RECURSIVE end_of(_, _, _)
end_of(h, i, depth) ==
    IF h[i].t = "start" THEN end_of(h, i + 1, depth + 1)
    ELSE IF h[i].t = "end"
         THEN (IF depth = 1 THEN i ELSE end_of(h, i + 1, depth - 1))
         ELSE end_of(h, i + 1, depth)

\* the start tags named tag strictly inside the element that starts at i:
\* element.findall('.//tag'), in document order
descendants(h, i, tag) ==
    LET inner == {j \in (i + 1)..(end_of(h, i, 0) - 1) :
                    h[j].t = "start" /\ h[j].tag = tag}
    IN  [k \in 1..Cardinality(inner) |->
            CHOOSE j \in inner : Cardinality({m \in inner : m < j}) = k - 1]

\* the start tags named tag anywhere in the description
all_elements(h, tag) ==
    LET found == {j \in 1..Len(h) : h[j].t = "start" /\ h[j].tag = tag}
    IN  [k \in 1..Cardinality(found) |->
            CHOOSE j \in found : Cardinality({m \in found : m < j}) = k - 1]

\* the body of "for row in rows"
row_entry(h, row, data) ==
    LET cells == descendants(h, row, "td")
        text(c) == element_text(h, c)
        key == IF Truthy(text(cells[1])) THEN strip(text(cells[1])[1]) ELSE <<>>
        value == IF Truthy(text(cells[2])) THEN strip(text(cells[2])[1]) ELSE <<>>
    IN  IF Len(cells) = 2 /\ key # <<>> THEN Put(data, key, value) ELSE data

RECURSIVE rows_entries(_, _, _, _)
rows_entries(h, rows, k, data) ==
    IF k > Len(rows) THEN data
    ELSE rows_entries(h, rows, k + 1, row_entry(h, rows[k], data))

RECURSIVE tables_entries(_, _, _, _)
tables_entries(h, tables, k, data) ==
    IF k > Len(tables) THEN data
    ELSE tables_entries(h, tables, k + 1,
             rows_entries(h, descendants(h, tables[k], "tr"), 1, data))

kml_to_csv_parse_html_description(h) ==
    IF h = <<>> THEN <<>>
    ELSE IF ~fromstring_ok(h) THEN <<>>
         ELSE tables_entries(h, all_elements(h, "table"), 1, <<>>)

---------------------------------------------------------------------------
(* kml_to_csv.kml_to_csv_interactive_multiple *)

\* the order of the code points of the atoms of a name
AtomRank(a) ==
    CASE a = " " -> 32
      [] a = "A" -> 65
      [] a = "B" -> 66
      [] a = "C" -> 67

\* s < t for two str
RECURSIVE str_less(_, _)
str_less(s, t) ==
    IF t = <<>> THEN FALSE
    ELSE IF s = <<>> THEN TRUE
         ELSE IF Head(s) = Head(t) THEN str_less(Tail(s), Tail(t))
              ELSE AtomRank(Head(s)) < AtomRank(Head(t))

\* sorted(list(S))
RECURSIVE sorted(_)
sorted(S) ==
    IF S = {} THEN <<>>
    ELSE LET least == CHOOSE s \in S : \A t \in S \ {s} : str_less(s, t)
         IN  <<least>> \o sorted(S \ {least})

\* pm.find('kml:name', ns) is not None and pm.find('kml:name', ns).text
names_listed(pms) ==
    sorted({pms[i].name[1][1] : i \in {j \in 1..Len(pms) : HasText(pms[j].name)}})

Digits == {"0", "1", "2", "3"}

DigitValue(a) ==
    CASE a = "0" -> 0 [] a = "1" -> 1 [] a = "2" -> 2 [] a = "3" -> 3

RECURSIVE digits_value(_, _)
digits_value(s, acc) ==
    IF s = <<>> THEN acc ELSE digits_value(Tail(s), 10 * acc + DigitValue(Head(s)))

\* int(s): blanks around the numeral go, a sign may come first, then at
\* least one digit and nothing but digits; None stands for ValueError
int(s) ==
    LET t == strip(s)
        signed == t # <<>> /\ Head(t) \in {"-", "+"}
        ds == IF signed THEN Tail(t) ELSE t
    IN  IF ds # <<>> /\ \A k \in 1..Len(ds) : ds[k] \in Digits
        THEN Some(IF signed /\ Head(t) = "-" THEN 0 - digits_value(ds, 0)
                  ELSE digits_value(ds, 0))
        ELSE None

\* a plausible slip: the number typed is used as the index as it is
choice_index_as_typed(n) == n

\* choice_index = int(input(...)) - 1
choice_index(n) == n - 1

\* lines 66-74: the selected name, or why there is none
choose(names, typed) ==
    LET n == int(typed)
    IN  IF n = None
        THEN [ok |-> FALSE, outcome |-> "invalid_input", name |-> None]
        ELSE IF ~(0 <= choice_index(n[1]) /\ choice_index(n[1]) < Len(names))
             THEN [ok |-> FALSE, outcome |-> "invalid_choice", name |-> None]
             ELSE [ok |-> TRUE, outcome |-> "running",
                   name |-> Some(names[choice_index(n[1]) + 1])]

\* line 76: the placemarks whose name text is the selected name
select_placemarks(pms, name) ==
    SelectSeq([i \in 1..Len(pms) |-> i],
              LAMBDA i : pms[i].name # Absent /\ pms[i].name[1] = Some(name))

CoreFields == << <<"Name">>, <<"Longitude">>, <<"Latitude">>, <<"Altitude">> >>

\* line 83 fails (AttributeError) when the first placemark has a
\* description element without text: None.strip()
first_desc_raises(pm) == pm.description # Absent /\ pm.description[1] = None

\* lines 83-86: the column list
field_order(pm) ==
    LET first_placemark_desc_html ==
            IF pm.description # Absent THEN strip_html(pm.description[1][1]) ELSE <<>>
    IN  CoreFields
            \o Keys(kml_to_csv_parse_html_description(first_placemark_desc_html))

\* dict.update
RECURSIVE update(_, _)
update(d, e) ==
    IF e = <<>> THEN d ELSE update(Put(d, Head(e)[1], Head(e)[2]), Tail(e))

\* lines 90-111: the dict of one placemark
placemark_row(pm) ==
    LET name == IF HasText(pm.name) THEN strip(pm.name[1][1]) ELSE <<>>
        coordinates_string ==
            IF HasText(pm.coordinates) THEN strip(pm.coordinates[1][1]) ELSE <<>>
        coords == split(coordinates_string, <<>>)
        at(k) == IF coordinates_string # <<>> /\ Len(coords) > k - 1
                 THEN coords[k] ELSE <<>>
        description_html ==
            IF HasText(pm.description) THEN strip_html(pm.description[1][1]) ELSE <<>>
        core == << <<(<<"Name">>), name>>, <<(<<"Longitude">>), at(1)>>,
                   <<(<<"Latitude">>), at(2)>>, <<(<<"Altitude">>), at(3)>> >>
    IN  update(core, kml_to_csv_parse_html_description(description_html))

\* csv.DictWriter(fieldnames, extrasaction='ignore'): the cells of a row
dict_row(fields, rowdict) == [k \in 1..Len(fields) |-> Get(rowdict, fields[k], <<>>)]

---------------------------------------------------------------------------
(* Descriptions made of table rows.  A cell is a sequence of text chunks:  *)
(* <<>> is the empty cell "<td></td>", <<c>> is "<td>c</td>" and           *)
(* <<c, d>> is "<td>c<b>d</b></td>", text broken up by inline markup.      *)

SeqsUpTo(S, n) == UNION {[1..k -> S] : k \in 0..n}

RECURSIVE Flatten(_)
Flatten(ss) == IF ss = <<>> THEN <<>> ELSE Head(ss) \o Flatten(Tail(ss))

RenderChunks(c) ==
    IF c = <<>> THEN <<>>
    ELSE <<Data(c[1])>> \o
         Flatten([i \in 1..(Len(c) - 1) |->
                    <<StartTag("b"), Data(c[i + 1]), EndTag("b")>>])

RenderCell(c) == <<StartTag("td")>> \o RenderChunks(c) \o <<EndTag("td")>>

RenderRow(r) ==
    <<StartTag("tr")>> \o Flatten([i \in 1..Len(r) |-> RenderCell(r[i])])
        \o <<EndTag("tr")>>

RenderTable(rows) ==
    <<StartTag("table")>> \o Flatten([i \in 1..Len(rows) |-> RenderRow(rows[i])])
        \o <<EndTag("table")>>

\* every row in a table of its own (multi), or all the rows in one table
RenderTables(rows, multi) ==
    IF multi
    THEN Flatten([i \in 1..Len(rows) |-> RenderTable(<<rows[i]>>)])
    ELSE RenderTable(rows)

---------------------------------------------------------------------------
(* Descriptions made of elements.  An element is [kind, cells]:            *)
(*    "h1"           <h1>text</h1>          cells = << <<text>> >>         *)
(*    "H1"           <H1>text</H1>                                         *)
(*    "p"            <p>text</p>                                           *)
(*    "row"          <tr><td>..</td><td>..</td></tr>                       *)
(*    "p_open"       <p>text                the element is never closed    *)
(*    "h1_open"      <h1>text                                              *)
(*    "row_open"     <tr><td>..</td><td>..</td>         no </tr>           *)
(*    "row_td_open"  <tr><td>..<td>..</tr>              no </td>           *)
(*    "tag_open"     <td                    the tag is never closed        *)
(*    "marked_open"  <![x y                 a marked section, never closed *)
(* The text of an "h1" or "p" element is one cell; an empty cell is an     *)
(* element without text.                                                   *)

Elem(kind, cells) == [kind |-> kind, cells |-> cells]

RenderElem(e) ==
    CASE e.kind = "h1" ->
            <<StartTag("h1")>> \o RenderChunks(e.cells[1]) \o <<EndTag("h1")>>
      [] e.kind = "H1" ->
            <<StartTag("H1")>> \o RenderChunks(e.cells[1]) \o <<EndTag("H1")>>
      [] e.kind = "p" ->
            <<StartTag("p")>> \o RenderChunks(e.cells[1]) \o <<EndTag("p")>>
      [] e.kind = "row" -> RenderRow(e.cells)
      [] e.kind = "p_open" -> <<StartTag("p")>> \o RenderChunks(e.cells[1])
      [] e.kind = "h1_open" -> <<StartTag("h1")>> \o RenderChunks(e.cells[1])
      [] e.kind = "row_open" ->
            <<StartTag("tr")>>
                \o Flatten([i \in 1..Len(e.cells) |-> RenderCell(e.cells[i])])
      [] e.kind = "row_td_open" ->
            <<StartTag("tr")>>
                \o Flatten([i \in 1..Len(e.cells) |->
                              <<StartTag("td")>> \o RenderChunks(e.cells[i])])
                \o <<EndTag("tr")>>
      [] e.kind = "tag_open" -> <<OpenTag("td")>>
      [] e.kind = "marked_open" -> <<Marked>>

RenderElems(es) == Flatten([i \in 1..Len(es) |-> RenderElem(es[i])])

\* a tag that is never closed by ">" ends the description
TagOpenOnlyLast(es) ==
    \A i \in 1..Len(es) : es[i].kind = "tag_open" => i = Len(es)

---------------------------------------------------------------------------
(* The inputs *)

Txt(a) == << <<a>> >>

\* a row of two cells, each one text
Row2(k, v) == <<Txt(k), Txt(v)>>

KV == Row2("K", "V")

KW == Row2("K", "W")

CellSet ==
    { <<>>, Txt("K"), << <<" ", "K", " ">> >>, << <<" ">> >>,
      << <<"V">>, <<"W">> >> }

RowSet == SeqsUpTo(CellSet, MaxCells)

TableDocs == [rows : SeqsUpTo(RowSet, MaxRows), multi : BOOLEAN]

HeadingElems ==
    { Elem("h1", << <<>> >>), Elem("h1", <<Txt(" ")>>),
      Elem("h1", <<Txt("A")>>), Elem("h1", << << <<" ", "B", " ">> >> >>),
      Elem("H1", <<Txt("C")>>), Elem("p", <<Txt("x")>>) }

HeadingDocs == SeqsUpTo(HeadingElems, MaxElems)

MalformedKinds ==
    {"p_open", "h1_open", "row_open", "row_td_open", "tag_open", "marked_open"}

HasAmp(e) ==
    \E i \in 1..Len(e.cells) : \E j \in 1..Len(e.cells[i]) :
        \E k \in 1..Len(e.cells[i][j]) : e.cells[i][j][k] = "&"

MalformedElem(e) == e.kind \in MalformedKinds \/ HasAmp(e)

Malformed(es) == \E i \in 1..Len(es) : MalformedElem(es[i])

MixedElems ==
    { Elem("row", KV),
      Elem("row", <<Txt("K"), <<>> >>),
      Elem("h1", <<Txt("A")>>),
      Elem("p", << << <<"a", " ", "&", " ", "b">> >> >>),
      Elem("p_open", <<Txt("x")>>),
      Elem("h1_open", << << <<"B", " ", "&">> >> >>),
      Elem("row_open", KV),
      Elem("row_td_open", KW),
      Elem("tag_open", <<>>),
      Elem("marked_open", <<>>) }

MalformedDocs ==
    {es \in SeqsUpTo(MixedElems, MaxElems) : TagOpenOnlyLast(es) /\ Malformed(es)}

\* an element without text, or with one of the texts
Children(texts) == {Absent, Child(None)} \cup {Child(Some(s)) : s \in texts}

CoordAtoms == {"1.0", "2.0", ",", WS}

CoordTexts == SeqsUpTo(CoordAtoms, MaxCoordLen) \ {<<>>}

ExtractPlacemarks ==
    {Placemark(n, c, d) :
        n \in {Absent, Child(Some(<<WS, "A">>))},
        c \in Children(CoordTexts),
        d \in {Absent,
                Child(Some(<<Data(<<WS>>)>> \o RenderTable(<<KV>>))),
                Child(Some(RenderTable(<<KV>>) \o <<Marked>>))}}

GroupDescriptions ==
    Children({ RenderElems(<<Elem("h1", <<Txt("A")>>)>>),
               RenderElems(<<Elem("h1", <<Txt("B")>>), Elem("row", KV)>>),
               RenderElems(<<Elem("h1", <<Txt(" ")>>)>>),
               RenderElems(<<Elem("p", <<Txt("x")>>)>>),
               RenderElems(<<Elem("h1", <<Txt("__NO_FORM__")>>)>>),
               RenderElems(<<Elem("h1", <<Txt("A")>>), Elem("marked_open", <<>>)>>) })

GroupPlacemarks ==
    {Placemark(Child(Some(<<"A">>)), Absent, d) : d \in GroupDescriptions}

TableAB == RenderTable(<<Row2("A", "1"), Row2("B", "2")>>)

TableBC == RenderTable(<<Row2("B", "3"), Row2("C", "4")>>)

TableName == RenderTable(<<Row2("Name", "X")>>)

TableThenOpen == RenderTable(<<Row2("A", "1")>>) \o <<StartTag("p")>>

RunPlacemarks ==
    {Placemark(n, c, d) :
        n \in {Absent, Child(Some(<<"A">>)), Child(Some(<<"A", WS>>)),
               Child(Some(<<"B">>))},
        c \in {Absent, Child(Some(<<"1.0", ",", "2.0">>)),
               Child(Some(<<"1.0", ",", "2.0", ",", "3.0", ",", "4.0">>))},
        d \in Children({TableAB, TableBC, TableName, TableThenOpen})}

NamedPlacemarks ==
    {Placemark(n, Child(Some(<<"1.0", ",", "2.0", ",", "3.0">>)), Child(Some(TableAB))) :
        n \in Children({<<"A">>, <<"B">>, <<"C">>})}

Archives(pms, n) ==
    {[kind |-> "no_kml", placemarks |-> <<>>],
     [kind |-> "bad_xml", placemarks |-> <<>>]}
        \cup {[kind |-> "ok", placemarks |-> ps] : ps \in SeqsUpTo(pms, n)}

InputAtoms == {"-", "0", "1", "2", "3", "x", WS}

Inputs == SeqsUpTo(InputAtoms, MaxInputLen)

---------------------------------------------------------------------------
(* HTMLParser.feed, handler by handler *)

\* feed has returned, or an exception has left it
Finished == exc # None \/ goahead_stops(html, pos)

TableStartTag ==
    /\ parser = "table" /\ ~Finished /\ html[pos].t = "start"
    /\ tp' = Table_handle_starttag(tp, html[pos].tag)
    /\ pos' = pos + 1
    /\ UNCHANGED <<parser, doc, html, hp, exc, extractVars, placemarks, groupVars, runVars>>

TableEndTag ==
    /\ parser = "table" /\ ~Finished /\ html[pos].t = "end"
    /\ tp' = Table_handle_endtag(tp, html[pos].tag)
    /\ pos' = pos + 1
    /\ UNCHANGED <<parser, doc, html, hp, exc, extractVars, placemarks, groupVars, runVars>>

TableData ==
    /\ parser = "table" /\ ~Finished /\ html[pos].t = "data"
    /\ tp' = Table_handle_data(tp, html[pos].s)
    /\ pos' = pos + 1
    /\ UNCHANGED <<parser, doc, html, hp, exc, extractVars, placemarks, groupVars, runVars>>

H1StartTag ==
    /\ parser = "h1" /\ ~Finished /\ html[pos].t = "start"
    /\ hp' = H1_handle_starttag(hp, html[pos].tag)
    /\ pos' = pos + 1
    /\ UNCHANGED <<parser, doc, html, tp, exc, extractVars, placemarks, groupVars, runVars>>

H1EndTag ==
    /\ parser = "h1" /\ ~Finished /\ html[pos].t = "end"
    /\ hp' = H1_handle_endtag(hp, html[pos].tag)
    /\ pos' = pos + 1
    /\ UNCHANGED <<parser, doc, html, tp, exc, extractVars, placemarks, groupVars, runVars>>

H1Data ==
    /\ parser = "h1" /\ ~Finished /\ html[pos].t = "data"
    /\ hp' = H1_handle_data(hp, html[pos].s)
    /\ pos' = pos + 1
    /\ UNCHANGED <<parser, doc, html, tp, exc, extractVars, placemarks, groupVars, runVars>>

NextTable == TableStartTag \/ TableEndTag \/ TableData

NextH1 == H1StartTag \/ H1EndTag \/ H1Data

\* either parser: the marked section raises, the parser is left as it is
MarkedSectionRaises ==
    /\ parser \in {"table", "h1"} /\ ~Finished /\ goahead_raises(html, pos)
    /\ exc' = Some("AssertionError")
    /\ UNCHANGED <<parser, doc, html, pos, tp, hp, extractVars, placemarks, groupVars, runVars>>

NextParse == NextTable \/ NextH1 \/ MarkedSectionRaises

---------------------------------------------------------------------------
(* extract_placemark_data, child by child *)

ExtractName ==
    /\ epc = "name"
    /\ pdata' = extract_name(placemark, pdata)
    /\ epc' = "coordinates"
    /\ UNCHANGED <<placemark, parserVars, placemarks, groupVars, runVars>>

ExtractCoordinates ==
    /\ epc = "coordinates"
    /\ pdata' = extract_coordinates(placemark, pdata)
    /\ epc' = "description"
    /\ UNCHANGED <<placemark, parserVars, placemarks, groupVars, runVars>>

\* lines 261-265: the function returns the PlacemarkData, or the exception
\* of parse_html_description leaves it
ExtractDescription ==
    /\ epc = "description"
    /\ LET r == extract_description(placemark, pdata)
       IN  IF Raised(r)
           THEN exc' = Some(r.raises) /\ epc' = "raised" /\ UNCHANGED pdata
           ELSE pdata' = r.value /\ epc' = "done" /\ UNCHANGED exc
    /\ UNCHANGED <<placemark, parser, doc, html, pos, tp, hp, placemarks,
                   groupVars, runVars>>

NextExtract == ExtractName \/ ExtractCoordinates \/ ExtractDescription

---------------------------------------------------------------------------
(* group_placemarks_by_form, placemark by placemark *)

\* lines 209-219: one turn of the loop, or the exception of get_form_name
\* leaves the function, which returns no forms
GroupPlacemark ==
    /\ gi <= Len(placemarks) /\ exc = None
    /\ LET r == group_placemark(forms, placemarks, gi)
       IN  IF Raised(r)
           THEN exc' = Some(r.raises) /\ UNCHANGED <<gi, forms>>
           ELSE forms' = r.value /\ gi' = gi + 1 /\ UNCHANGED exc
    /\ UNCHANGED <<parser, doc, html, pos, tp, hp, extractVars, placemarks, runVars>>

NextGroup == GroupPlacemark

---------------------------------------------------------------------------
(* kml_to_csv_interactive_multiple, step by step *)

Return(how) ==
    /\ pc' = "returned"
    /\ outcome' = how

\* lines 44-51: the archive is read and the document parsed
ReadArchive ==
    /\ pc = "start"
    /\ IF kmz.kind = "no_kml"
       THEN Return("no_kml") /\ UNCHANGED placemarks
       ELSE IF kmz.kind = "bad_xml"
            THEN Return("error_parse") /\ UNCHANGED placemarks
            ELSE /\ placemarks' = kmz.placemarks
                 /\ pc' = "list"
                 /\ UNCHANGED outcome
    /\ UNCHANGED <<kmz, input, placemark_names, selected_name, selected_placemarks,
                   fieldnames, all_placemarks_data, written, csvfile, torn>>
    /\ UNCHANGED <<parserVars, extractVars, groupVars>>

\* lines 54-64: the names are listed
ListNames ==
    /\ pc = "list"
    /\ placemark_names' = names_listed(placemarks)
    /\ IF names_listed(placemarks) = <<>>
       THEN Return("no_names")
       ELSE pc' = "prompt" /\ UNCHANGED outcome
    /\ UNCHANGED <<kmz, input, selected_name, selected_placemarks,
                   fieldnames, all_placemarks_data, written, csvfile, torn>>
    /\ UNCHANGED <<parserVars, extractVars, placemarks, groupVars>>

\* lines 66-74: the user types a line
Choose ==
    /\ pc = "prompt"
    /\ \E typed \in Inputs :
          /\ input' = Some(typed)
          /\ LET r == choose(placemark_names, typed)
             IN  IF r.ok
                 THEN selected_name' = r.name /\ pc' = "select" /\ UNCHANGED outcome
                 ELSE Return(r.outcome) /\ UNCHANGED selected_name
    /\ UNCHANGED <<kmz, placemark_names, selected_placemarks,
                   fieldnames, all_placemarks_data, written, csvfile, torn>>
    /\ UNCHANGED <<parserVars, extractVars, placemarks, groupVars>>

\* lines 76-80
SelectPlacemarks ==
    /\ pc = "select"
    /\ selected_placemarks' = select_placemarks(placemarks, selected_name[1])
    /\ IF select_placemarks(placemarks, selected_name[1]) = <<>>
       THEN Return("no_placemarks")
       ELSE pc' = "fields" /\ UNCHANGED outcome
    /\ UNCHANGED <<kmz, input, placemark_names, selected_name,
                   fieldnames, all_placemarks_data, written, csvfile, torn>>
    /\ UNCHANGED <<parserVars, extractVars, placemarks, groupVars>>

\* lines 82-86
FieldOrder ==
    /\ pc = "fields"
    /\ IF first_desc_raises(placemarks[selected_placemarks[1]])
       THEN Return("error_attribute") /\ UNCHANGED fieldnames
       ELSE /\ fieldnames' = field_order(placemarks[selected_placemarks[1]])
            /\ pc' = "rows"
            /\ UNCHANGED outcome
    /\ UNCHANGED <<kmz, input, placemark_names, selected_name, selected_placemarks,
                   all_placemarks_data, written, csvfile, torn>>
    /\ UNCHANGED <<parserVars, extractVars, placemarks, groupVars>>

\* lines 89-113: one turn of the loop
BuildRow ==
    /\ pc = "rows"
    /\ Len(all_placemarks_data) < Len(selected_placemarks)
    /\ all_placemarks_data' =
          Append(all_placemarks_data,
                 placemark_row(placemarks[
                     selected_placemarks[Len(all_placemarks_data) + 1]]))
    /\ UNCHANGED <<kmz, pc, input, placemark_names, selected_name,
                   selected_placemarks, fieldnames, written, csvfile, torn, outcome>>
    /\ UNCHANGED <<parserVars, extractVars, placemarks, groupVars>>

\* line 115: open(output_csv_path, 'w') creates or empties the file
OpenFile ==
    /\ pc = "rows"
    /\ Len(all_placemarks_data) = Len(selected_placemarks)
    /\ csvfile' = Some(<<>>) /\ torn' = FALSE
    /\ pc' = "header"
    /\ UNCHANGED <<kmz, input, placemark_names, selected_name, selected_placemarks,
                   fieldnames, all_placemarks_data, written, outcome>>
    /\ UNCHANGED <<parserVars, extractVars, placemarks, groupVars>>

\* line 115: open raises OSError (the destination is not writable)
OpenFails ==
    /\ pc = "rows"
    /\ Len(all_placemarks_data) = Len(selected_placemarks)
    /\ Return("error_io")
    /\ UNCHANGED <<kmz, input, placemark_names, selected_name, selected_placemarks,
                   fieldnames, all_placemarks_data, written, csvfile, torn>>
    /\ UNCHANGED <<parserVars, extractVars, placemarks, groupVars>>

\* line 117: the header goes to the file object
WriteHeader ==
    /\ pc = "header"
    /\ written' = <<fieldnames>>
    /\ pc' = "body"
    /\ UNCHANGED <<kmz, input, placemark_names, selected_name, selected_placemarks,
                   fieldnames, all_placemarks_data, csvfile, torn, outcome>>
    /\ UNCHANGED <<parserVars, extractVars, placemarks, groupVars>>

RowsWritten == Len(written) - 1

\* line 118: writerows, row by row
WriteRow ==
    /\ pc = "body"
    /\ RowsWritten < Len(all_placemarks_data)
    /\ written' =
          Append(written, dict_row(fieldnames, all_placemarks_data[RowsWritten + 1]))
    /\ UNCHANGED <<kmz, pc, input, placemark_names, selected_name,
                   selected_placemarks, fieldnames, all_placemarks_data,
                   csvfile, torn, outcome>>
    /\ UNCHANGED <<parserVars, extractVars, placemarks, groupVars>>

\* the lines the file object has been handed when the next step fails: the
\* header at writeheader, one more row in writerows, all of them at the close
\* that ends the with block
Handed ==
    IF pc = "header" THEN <<fieldnames>>
    ELSE IF RowsWritten < Len(all_placemarks_data)
         THEN Append(written, dict_row(fieldnames, all_placemarks_data[RowsWritten + 1]))
         ELSE written

\* lines 115-118: the bytes do not all reach the disk (the device is full,
\* the file may not grow): OSError leaves the write that fills the buffer,
\* or the close that empties it.  The disk holds the bytes that fitted:
\* some whole lines, then nothing or a cut line
WriteFails ==
    /\ pc \in {"header", "body"}
    /\ \E k \in 0..(Len(Handed) - 1), cut \in BOOLEAN :
          /\ csvfile' = Some(SubSeq(Handed, 1, k))
          /\ torn' = cut
    /\ Return("error_io")
    /\ UNCHANGED <<kmz, input, placemark_names, selected_name, selected_placemarks,
                   fieldnames, all_placemarks_data, written>>
    /\ UNCHANGED <<parserVars, extractVars, placemarks, groupVars>>

\* lines 118-120: the with block closes the file, every line is on disk,
\* the success is reported
Finish ==
    /\ pc = "body"
    /\ RowsWritten = Len(all_placemarks_data)
    /\ csvfile' = Some(written)
    /\ Return("success")
    /\ UNCHANGED <<kmz, input, placemark_names, selected_name, selected_placemarks,
                   fieldnames, all_placemarks_data, written, torn>>
    /\ UNCHANGED <<parserVars, extractVars, placemarks, groupVars>>

Next ==
    \/ ReadArchive \/ ListNames \/ Choose \/ SelectPlacemarks \/ FieldOrder
    \/ BuildRow \/ OpenFile \/ OpenFails \/ WriteHeader \/ WriteRow
    \/ WriteFails \/ Finish

---------------------------------------------------------------------------
(* The specifications: one per function, the input drawn in Init *)

ParserIdle ==
    /\ parser = "none" /\ doc = <<>> /\ html = <<>> /\ pos = 1
    /\ tp = TableHTMLParser_init /\ hp = H1HTMLParser_init /\ exc = None

ParserStarts(which, docs) ==
    /\ parser \in which
    /\ doc \in docs
    /\ pos = 1
    /\ tp = TableHTMLParser_init
    /\ hp = H1HTMLParser_init
    /\ exc = None

ExtractIdle == placemark = NoPlacemark /\ epc = "idle" /\ pdata = PlacemarkData_init

GroupIdle == gi = 1 /\ forms = <<>>

RunStarts ==
    /\ pc = "start" /\ input = None /\ placemark_names = <<>>
    /\ selected_name = None /\ selected_placemarks = <<>> /\ fieldnames = <<>>
    /\ all_placemarks_data = <<>> /\ written = <<>> /\ csvfile = None
    /\ torn = FALSE /\ outcome = "running"

RunIdle ==
    /\ kmz = [kind |-> "no_kml", placemarks |-> <<>>]
    /\ RunStarts

InitTable ==
    /\ ParserStarts({"table"}, TableDocs)
    /\ html = RenderTables(doc.rows, doc.multi)
    /\ ExtractIdle /\ placemarks = <<>> /\ GroupIdle /\ RunIdle

InitHeading ==
    /\ ParserStarts({"h1"}, HeadingDocs)
    /\ html = RenderElems(doc)
    /\ ExtractIdle /\ placemarks = <<>> /\ GroupIdle /\ RunIdle

InitMalformed ==
    /\ ParserStarts({"table", "h1"}, MalformedDocs)
    /\ html = RenderElems(doc)
    /\ ExtractIdle /\ placemarks = <<>> /\ GroupIdle /\ RunIdle

InitExtract ==
    /\ placemark \in ExtractPlacemarks
    /\ epc = "name"
    /\ pdata = PlacemarkData_init
    /\ ParserIdle /\ placemarks = <<>> /\ GroupIdle /\ RunIdle

InitGroup ==
    /\ placemarks \in SeqsUpTo(GroupPlacemarks, MaxGroupPlacemarks)
    /\ GroupIdle
    /\ ParserIdle /\ ExtractIdle /\ RunIdle

Init ==
    /\ kmz \in Archives(RunPlacemarks, MaxRunPlacemarks)
    /\ RunStarts
    /\ placemarks = <<>>
    /\ ParserIdle /\ ExtractIdle /\ GroupIdle

InitSelect ==
    /\ kmz \in Archives(NamedPlacemarks, MaxSelectPlacemarks)
    /\ RunStarts
    /\ placemarks = <<>>
    /\ ParserIdle /\ ExtractIdle /\ GroupIdle

SpecTable == InitTable /\ [][NextTable]_vars

SpecHeading == InitHeading /\ [][NextH1]_vars

SpecMalformed == InitMalformed /\ [][NextParse]_vars

SpecExtract == InitExtract /\ [][NextExtract]_vars

SpecGroup == InitGroup /\ [][NextGroup]_vars

SpecSelect == InitSelect /\ [][Next]_vars

Spec == Init /\ [][Next]_vars

---------------------------------------------------------------------------
(* The claims *)

\* the text of a cell: its chunks, in order
CellText(c) == Concat(c)

\* the mapping the rows stand for: a row of exactly two cells with a
\* non-empty trimmed first cell maps that key to the trimmed second cell
RECURSIVE RowsMapping(_, _)
RowsMapping(rows, d) ==
    IF rows = <<>> THEN d
    ELSE LET r == Head(rows)
             kept == Len(r) = 2 /\ strip(CellText(r[1])) # <<>>
         IN  RowsMapping(Tail(rows),
                 IF kept THEN Put(d, strip(CellText(r[1])), strip(CellText(r[2])))
                 ELSE d)

\* C1: when the whole description has been fed, the parser's mapping is the
\* one built from the rows in document order: exactly the two-cell rows with
\* a non-empty trimmed key, key to trimmed second-cell text, later rows
\* overwriting earlier ones; any other row contributes nothing.
C1_TableIsRowsMapping ==
    (parser = "table" /\ Finished) => tp.data = RowsMapping(doc.rows, <<>>)

\* the comma-separated tokens of the coordinate text, none without a text
CoordTokens(pm) ==
    IF HasText(pm.coordinates) THEN split(strip(pm.coordinates[1][1]), <<>>) ELSE <<>>

TokenOrEmpty(toks, i) == IF Len(toks) >= i THEN toks[i] ELSE <<>>

\* C2: whatever the number of tokens, longitude, latitude and altitude are
\* the first, second and third token where there is one, and empty where
\* there is none; with more than three tokens the first three are assigned.
C2_FirstThreeTokens ==
    epc = "done" =>
        /\ pdata.longitude = TokenOrEmpty(CoordTokens(placemark), 1)
        /\ pdata.latitude = TokenOrEmpty(CoordTokens(placemark), 2)
        /\ pdata.altitude = TokenOrEmpty(CoordTokens(placemark), 3)

Headings(es) == SelectSeq(es, LAMBDA e : e.kind \in {"h1", "H1"})

\* C3: when the whole description has been fed, the result is the trimmed
\* text of the first <h1> and of no later one (an empty or blank first
\* heading gives the empty text, or no text at all), and None when the
\* description has no heading.
C3_FirstHeadingOnly ==
    (parser = "h1" /\ Finished) =>
        IF Headings(doc) = <<>>
        THEN hp.text = None
        ELSE LET first == strip(CellText(Headings(doc)[1].cells[1]))
             IN  \/ hp.text = Some(first)
                 \/ first = <<>> /\ hp.text = None

\* C6: when parse_html_description or get_form_name has ended on a
\* description whose markup is malformed, also one that holds complete
\* two-cell rows or a heading before the malformed part, no exception has
\* left it, the mapping is empty and the form name is None.
C6_MalformedGivesEmpty ==
    (Finished /\ Malformed(doc)) =>
        /\ exc = None
        /\ parser = "table" => tp.data = <<>>
        /\ parser = "h1" => hp.text = None

---------------------------------------------------------------------------
(* group_placemarks_by_form *)

Positions(n) == [i \in 1..n |-> i]

\* the placemarks, in document order, whose form name is the label
WithLabel(pms, label) ==
    SelectSeq(Positions(Len(pms)), LAMBDA i : form_name(pms[i]) = Returns(label))

Range(s) == {s[i] : i \in 1..Len(s)}

RECURSIVE SumLen(_)
SumLen(d) == IF d = <<>> THEN 0 ELSE Len(Head(d)[2]) + SumLen(Tail(d))

---------------------------------------------------------------------------
(* kml_to_csv_interactive_multiple *)

\* the description table of a placemark, empty without a description text
TableOf(pm) ==
    IF HasText(pm.description)
    THEN kml_to_csv_parse_html_description(strip_html(pm.description[1][1]))
    ELSE <<>>

\* a group was selected and the run ended without an input/output failure
RanOn(g) == pc = "returned" /\ g # <<>> /\ outcome # "error_io"

\* C4: for every selected group the file holds the header Name, Longitude,
\* Latitude, Altitude and then the table keys of the group's first
\* placemark, and one row per placemark of the group under those columns:
\* the cell of a table column is the placemark's value for that key, empty
\* when its table has no such key (keys outside the columns are dropped).
C4_SchemaOfFirst ==
    RanOn(selected_placemarks) =>
        LET g == selected_placemarks
            keys == Keys(TableOf(placemarks[g[1]]))
        IN  /\ csvfile # None
            /\ Len(csvfile[1]) = Len(g) + 1
            /\ csvfile[1][1] = CoreFields \o keys
            /\ \A i \in 1..Len(g) :
                  /\ Len(csvfile[1][i + 1]) = 4 + Len(keys)
                  /\ \A k \in 1..Len(keys) :
                        csvfile[1][i + 1][4 + k]
                            = Get(TableOf(placemarks[g[i]]), keys[k], <<>>)

\* C9: when a placemark of the selected group (the first one included) has
\* no description, or a description without text, the run still succeeds,
\* writes one row per placemark of the group, and that placemark's dict
\* holds the four core fields and nothing from a table.
C9_NoDescriptionIsEmpty ==
    LET g == selected_placemarks
        bare == {i \in 1..Len(g) : ~HasText(placemarks[g[i]].description)}
    IN  (RanOn(g) /\ bare # {}) =>
            /\ outcome = "success"
            /\ csvfile # None /\ Len(csvfile[1]) = Len(g) + 1
            /\ \A i \in bare : Len(all_placemarks_data[i]) = 4

\* the file holds the header and one row per row built, and no cut line
FileComplete ==
    /\ csvfile # None
    /\ Len(csvfile[1]) = Len(all_placemarks_data) + 1
    /\ csvfile[1][1] = fieldnames
    /\ ~torn

\* C8: the destination is opened only after all rows are built, and after
\* a run that aborted, at whatever step, the file is untouched or complete.
C8_NoHalfWrittenFile ==
    /\ csvfile # None =>
          (selected_placemarks # <<>>
              /\ Len(all_placemarks_data) = Len(selected_placemarks))
    /\ (pc = "returned" /\ outcome # "success") => (csvfile = None \/ FileComplete)

CoordToken(pm, k) ==
    LET toks == IF HasText(pm.coordinates)
                THEN split(strip(pm.coordinates[1][1]), <<>>) ELSE <<>>
    IN  IF Len(toks) >= k THEN toks[k] ELSE <<>>

OwnName(pm) == IF HasText(pm.name) THEN strip(pm.name[1][1]) ELSE <<>>

\* C10: in every row the file holds, the first four cells are the
\* placemark's own trimmed name and its first three coordinate tokens,
\* whatever keys its description table has, and the header names each of
\* the four core columns exactly once.
C10_CoreCellsOwn ==
    (csvfile # None /\ csvfile[1] # <<>>) =>
        /\ \A c \in Range(CoreFields) :
              Cardinality({k \in 1..Len(csvfile[1][1]) : csvfile[1][1][k] = c}) = 1
        /\ \A i \in 1..(Len(csvfile[1]) - 1) :
              LET pm == placemarks[selected_placemarks[i]]
              IN  SubSeq(csvfile[1][i + 1], 1, 4)
                      = <<OwnName(pm), CoordToken(pm, 1), CoordToken(pm, 2),
                          CoordToken(pm, 3)>>

\* the names of the placemarks that have one
NameTexts(pms) == {pms[i].name[1][1] : i \in {j \in 1..Len(pms) : HasText(pms[j].name)}}

\* C7: once the user has typed a line, the names listed are the distinct
\* names in ascending order; an integer i with 1 <= i <= n selects the i-th
\* of them; any other line ends the run with the selection rejected, nothing
\* selected or built, and the output file never opened.
C7_SelectionByIndex ==
    input # None =>
        LET n == Len(placemark_names)
            i == int(input[1])
        IN  /\ Range(placemark_names) = NameTexts(placemarks)
            /\ \A a, b \in 1..n : a < b => str_less(placemark_names[a], placemark_names[b])
            /\ IF i # None /\ 1 <= i[1] /\ i[1] <= n
               THEN /\ selected_name = Some(placemark_names[i[1]])
                    /\ outcome \notin {"invalid_input", "invalid_choice"}
               ELSE /\ pc = "returned"
                    /\ outcome \in {"invalid_input", "invalid_choice"}
                    /\ selected_name = None /\ selected_placemarks = <<>>
                    /\ fieldnames = <<>> /\ all_placemarks_data = <<>>
                    /\ csvfile = None

\* three names listed out of a document that holds them in another order,
\* the line "2" typed, the second name selected and its group exported
C7_Witness ==
    /\ input = Some(<<"2">>)
    /\ Len(placemarks) = 3 /\ placemarks[1].name = Child(Some(<<"C">>))
    /\ placemark_names = << <<"A">>, <<"B">>, <<"C">> >>
    /\ selected_name = Some(<<"B">>)
    /\ outcome = "success"

=============================================================================
